---- MODULE Spec2Model ----
(***************************************************************************)
(* Nublado coordination engine.                                            *)
(*                                                                         *)
(* The repository ships independent entry points; each is a state machine  *)
(* over its own part of the state:                                         *)
(*   - OrchestratorController.coordinateAgents / buildExecutionPlan        *)
(*     (src/agents/orchestrator_controller.js)            -> SpecPlan      *)
(*   - OrchestratorController task execution                               *)
(*     (src/agents/orchestrator_controller.js)            -> SpecCtl       *)
(*   - MasterOrchestrator (src/orchestrator/master-orchestrator.js)        *)
(*                                                        -> SpecMaster    *)
(* Spec runs whichever of the two task executors was started.              *)
(***************************************************************************)
EXTENDS Integers, Sequences, FiniteSets, TLC

VARIABLES
    program,        \* which entry point this process runs
    \* ---- buildExecutionPlan (orchestrator_controller.js:227-281)
    tasks,          \* coordinationPlan.tasks: the task ids in submission order
    dependencies,   \* coordinationPlan.dependencies: taskId -> set of taskIds
    priority,       \* coordinationPlan.priority: taskId -> number
    plan,           \* plan.phases: sequence of phases, each a sequence of ids
    completed,      \* the local Set `completed`
    planPc,         \* "start" | "loop" | "returned" | "threw"
    planWarned,     \* the 'Circular dependency detected...' warning was logged
    firstPlan,      \* what the first buildExecutionPlan call returned: <<>>
                    \* until a second call starts, else a one-element sequence
    \* ---- OrchestratorController execution (orchestrator_controller.js:83-321)
    ctlTasks,       \* the task objects made by createTask, in creation order
    taskQueue,      \* this.taskQueue: indices of task objects
    agents,         \* the agent objects created: agent number n (`agent_n`)
                    \* -> agent object, also after shutdown cleared the Map
    registry,       \* the keys of the Map this.agents
    taskIdCounter,  \* this.taskIdCounter
    agentIdCounter, \* this.agentIdCounter
    calls,          \* the executeParallelTasks invocations, in call order
    maxParallel,    \* this.config.performance.max_parallel_tasks
    insights,       \* what learnFromExecution returned last: <<>> before the
                    \* first call, else a one-element sequence
    \* ---- MasterOrchestrator (master-orchestrator.js)
    mAgents,        \* this.agents: agent id -> agent object, in config order
    mTasks,         \* the task objects handed to assignTask, in call order
    mQueue,         \* this.taskQueue: indices of task objects
    mMetrics,       \* this.performanceMetrics: agent id -> metrics
    mRuns,          \* the executeAgentTask runs in flight: the agent and task
                    \* they were called with and where they stand
    mIsRunning,     \* this.isRunning
    mReported,      \* the tasks a task:completed or task:failed event was
                    \* emitted for
    \* ---- conflict resolution (master-orchestrator.js:338-349,
    \*      git-branch-manager.js:196-218)
    cAgents,        \* the registered agents: protocols.priority, branch recorded
    cCalls,         \* the resolveConflict invocations, in call order
    cMerges,        \* the `git merge ... --strategy-option=` commands issued
    cQueue,         \* gitManager.conflictResolutionQueue: agent ids
    \* ---- BaseAgent (base_agent.js:7-216)
    bStatus,        \* this.status
    bMax,           \* this.maxConcurrentTasks
    bActive,        \* the keys of this.activeTasks
    bRuns,          \* the executeTask calls, in call order: the task id they
                    \* computed and where they stand
    bHistory,       \* this.taskHistory
    bPerformance,   \* this.performance
    \* ---- CoreAgent (part_008:7-183)
    kStatus,        \* this.status
    kCurrentTask,   \* this.currentTask: the call whose task it is, 0 for null
    kMetrics,       \* this.metrics
    kCalls,         \* the executeTask calls, in call order, and where they stand
    \* ---- CoordinatorAgent.resolveDependencies (specialized_agents.js:163-183)
    rTasks,         \* params.tasks: the task ids in list order
    rDeps,          \* params.dependencies: taskId -> set of taskIds
    rOrder,         \* the local array executionOrder
    rResolved,      \* the local Set `resolved`
    rPc,            \* "start" | "loop" | "returned"
    rParallel       \* the returned `parallelizable`: a list of phases (id lists)

planVars == <<tasks, dependencies, priority, plan, completed, planPc, planWarned,
              firstPlan>>

ctlVars == <<ctlTasks, taskQueue, agents, registry, taskIdCounter,
             agentIdCounter, calls, maxParallel, insights>>

mVars == <<mAgents, mTasks, mQueue, mMetrics, mRuns, mReported, mIsRunning>>

cVars == <<cAgents, cCalls, cMerges, cQueue>>

bVars == <<bStatus, bMax, bActive, bRuns, bHistory, bPerformance>>

kVars == <<kStatus, kCurrentTask, kMetrics, kCalls>>

rVars == <<rTasks, rDeps, rOrder, rResolved, rPc, rParallel>>

vars == <<program, planVars, ctlVars, mVars, cVars, bVars, kVars, rVars>>

\* ------------------------------------------------------------------ bounds
MaxTasks == 3       \* tasks per submitted coordination plan
MaxEdges == 3       \* dependency edges per submitted dependency map
MaxCtlTasks == 2    \* task objects created (createTask, learn)
NumMAgents == 2     \* agents listed in the MasterOrchestrator configuration
MaxMTasks == 2      \* task objects handed to MasterOrchestrator.assignTask
NumCAgents == 2     \* agents that conflicts are detected for
MaxConflicts == 2   \* conflict:detected events handled
MaxBaseTasks == 3   \* executeTask calls on one BaseAgent
MaxCoreCalls == 3   \* executeTask calls on one CoreAgent

\* `task.retries < 3` in handleTaskFailure
MaxRetries == 3

\* `agent.protocols.priority > 7` in resolveConflict
ConflictThreshold == 7

\* the execution times measured for a task (Date.now() differences)
ExecTimes == {1, 2}

\* config.performance.max_parallel_tasks as the configuration file may set it
\* (getDefaultConfig gives 10)
MaxParallelChoices == {1, 2}

\* config.performance.max_agents as the configuration file may set it
\* (getDefaultConfig gives 20); no method reads it
MaxAgentsChoices == {1, 2}

\* priorities used by the submissions (0 is also what a missing entry reads as)
PrioValues == {0, 5, 9}

TaskIds == 1..MaxTasks

\* ------------------------------------------------------------------ helpers
SeqToSet(s) == {s[i] : i \in DOMAIN s}

\* ------------------------------------------------- buildExecutionPlan (pure)
\* `dependencies[taskId] || []`
DepsOf(deps, taskId) == IF taskId \in DOMAIN deps THEN deps[taskId] ELSE {}

\* `priority[id] || 0`
PrioOf(prio, taskId) == IF taskId \in DOMAIN prio THEN prio[taskId] ELSE 0

DepsSatisfiedSome(deps, taskId, done) ==
    DepsOf(deps, taskId) = {} \/ \E d \in DepsOf(deps, taskId) : d \in done

\* `deps.every(d => completed.has(d))`
DepsSatisfied(deps, taskId, done) == DepsOf(deps, taskId) \subseteq done

\* a scan that stops at the first task it places: one task per phase
RECURSIVE ScanTasksOneEach(_, _, _, _, _, _)
ScanTasksOneEach(ts, i, deps, done, inProgress, phase) ==
    IF i > Len(ts) \/ phase # <<>> THEN phase
    ELSE LET taskId == ts[i] IN
         IF taskId \in done \/ taskId \in inProgress
         THEN ScanTasksOneEach(ts, i + 1, deps, done, inProgress, phase)
         ELSE IF DepsSatisfied(deps, taskId, done)
              THEN ScanTasksOneEach(ts, i + 1, deps, done,
                                    inProgress \cup {taskId}, Append(phase, taskId))
              ELSE ScanTasksOneEach(ts, i + 1, deps, done, inProgress, phase)

\* the for-loop of one pass: scan the tasks in order from index i, skipping
\* ids already completed or already put in this phase (inProgress)
RECURSIVE ScanTasks(_, _, _, _, _, _)
ScanTasks(ts, i, deps, done, inProgress, phase) ==
    IF i > Len(ts) THEN phase
    ELSE LET taskId == ts[i] IN
         IF taskId \in done \/ taskId \in inProgress
         THEN ScanTasks(ts, i + 1, deps, done, inProgress, phase)
         ELSE IF DepsSatisfied(deps, taskId, done)
              THEN ScanTasks(ts, i + 1, deps, done,
                             inProgress \cup {taskId}, Append(phase, taskId))
              ELSE ScanTasks(ts, i + 1, deps, done, inProgress, phase)

\* insert x into the sorted sequence s behind every element that does not
\* compare after it: the comparator is (priority[b] || 0) - (priority[a] || 0)
RECURSIVE InsertByPriority(_, _, _)
InsertByPriority(s, x, prio) ==
    IF s = <<>> THEN <<x>>
    ELSE IF PrioOf(prio, x) > PrioOf(prio, Head(s))
         THEN <<x>> \o s
         ELSE <<Head(s)>> \o InsertByPriority(Tail(s), x, prio)

\* the insertion loop behind SortPhase
RECURSIVE SortPhaseFrom(_, _, _, _)
SortPhaseFrom(phase, i, acc, prio) ==
    IF i > Len(phase) THEN acc
    ELSE SortPhaseFrom(phase, i + 1, InsertByPriority(acc, phase[i], prio), prio)

\* the phase left in scan order, `phase.sort(...)` left out
SortPhaseNone(phase, prio) == phase

\* `phase.sort(...)`: Array.prototype.sort is stable
SortPhase(phase, prio) == SortPhaseFrom(phase, 1, <<>>, prio)

\* ------------------------------------------------------------- plan actions
NumEdges(deps) ==
    Cardinality({e \in (DOMAIN deps) \X TaskIds : e[2] \in deps[e[1]]})

PlanInit ==
    /\ \E n \in 0..MaxTasks :
         /\ tasks = [i \in 1..n |-> i]
         /\ dependencies \in {d \in [1..n -> SUBSET TaskIds] : NumEdges(d) <= MaxEdges}
         /\ priority \in [1..n -> PrioValues]
    /\ plan = [phases |-> <<>>]
    /\ completed = {}
    /\ planPc = "start"
    /\ planWarned = FALSE
    /\ firstPlan = <<>>

PlanOff ==
    /\ tasks = <<>>
    /\ dependencies = <<>>
    /\ priority = <<>>
    /\ plan = [phases |-> <<>>]
    /\ completed = {}
    /\ planPc = "off"
    /\ planWarned = FALSE
    /\ firstPlan = <<>>

\* a `completed` that outlives the call
KeptCompleted(previous) == previous

\* `const completed = new Set()`: every call starts from its own empty set,
\* whatever an earlier call left
NewCompleted(previous) == {}

\* coordinateAgents -> buildExecutionPlan up to the first test of the while
\* condition `completed.size < tasks.length`; the caller may call again with
\* the same coordinationPlan once the first call has returned
CoordinateAgents ==
    /\ planPc = "start" \/ (planPc = "returned" /\ firstPlan = <<>>)
    /\ firstPlan' = IF planPc = "returned" THEN <<plan>> ELSE firstPlan
    /\ plan' = [phases |-> <<>>]
    /\ completed' = NewCompleted(completed)
    /\ planPc' = IF Cardinality(completed') < Len(tasks) THEN "loop" ELSE "returned"
    /\ UNCHANGED <<tasks, dependencies, priority, planWarned>>

\* the ids of the submissions that may name a task twice
RepeatableIds == {1, 2}

\* a submission as any caller may build it: the same id may stand in the
\* list more than once, and dependencies may name ids that are not in it
PlanAnyInit ==
    /\ \E n \in 0..MaxTasks : tasks \in [1..n -> RepeatableIds]
    /\ dependencies \in {d \in [SeqToSet(tasks) -> SUBSET TaskIds] :
                            NumEdges(d) <= MaxEdges}
    /\ priority \in [SeqToSet(tasks) -> PrioValues]
    /\ plan = [phases |-> <<>>]
    /\ completed = {}
    /\ planPc = "start"
    /\ planWarned = FALSE
    /\ firstPlan = <<>>

\* a pass that finds no task and goes round again: the warning without the
\* break
PlanBreakWithoutBreak ==
    /\ planPc = "loop"
    /\ ScanTasks(tasks, 1, dependencies, completed, {}, <<>>) = <<>>
    /\ planWarned' = TRUE
    /\ UNCHANGED <<tasks, dependencies, priority, plan, completed, firstPlan,
                   planPc>>

\* one pass of the while loop that finds no task: warning and break
PlanBreak ==
    /\ planPc = "loop"
    /\ ScanTasks(tasks, 1, dependencies, completed, {}, <<>>) = <<>>
    /\ planWarned' = TRUE
    /\ planPc' = "returned"
    /\ UNCHANGED <<tasks, dependencies, priority, plan, completed, firstPlan>>

\* one pass of the while loop that places a phase
PlanPass ==
    /\ planPc = "loop"
    /\ LET phase == ScanTasks(tasks, 1, dependencies, completed, {}, <<>>) IN
         /\ phase # <<>>
         /\ plan' = [plan EXCEPT !.phases = Append(@, SortPhase(phase, priority))]
         /\ completed' = completed \cup SeqToSet(phase)
         /\ planPc' = IF Cardinality(completed') < Len(tasks) THEN "loop" ELSE "returned"
    /\ UNCHANGED <<tasks, dependencies, priority, planWarned, firstPlan>>

\* ------------------------------------------- OrchestratorController: data
\* task.requiredCapabilities when the field is missing (undefined)
NoCaps == {"<undefined>"}

\* what callers of createTask pass as requiredCapabilities
RequiredCapChoices == {{}, {"testing"}}

\* the payload awaited in executeTask either resolves or rejects
PayloadOutcomes == {"resolved", "rejected"}

Rat(n, d) == [num |-> n, den |-> d]

RECURSIVE GCD(_, _)
GCD(a, b) == IF b = 0 THEN a ELSE GCD(b, a % b)

Normalize(r) ==
    IF r.num = 0 THEN Rat(0, 1)
    ELSE LET g == GCD(r.num, r.den) IN Rat(r.num \div g, r.den \div g)

RatLess(a, b) == a.num * b.den < b.num * a.den

\* (avg * (n - 1) + sample) / n
RunningMean(avg, n, sample) ==
    Normalize(Rat(avg.num * (n - 1) + sample * avg.den, avg.den * n))

\* the scheduler state threaded through the synchronous part of a handler
CtlState == [tasks |-> ctlTasks, agents |-> agents, registry |-> registry,
             taskIdCounter |-> taskIdCounter, agentIdCounter |-> agentIdCounter]

\* createDynamicAgent without `this.agents.set(agentId, agent)`
CreateDynamicAgentUnregistered(c, capabilities, type) ==
    [c EXCEPT !.agentIdCounter = @ + 1]

\* createDynamicAgent(config): the state after it, the new agent is number
\* c.agentIdCounter
CreateDynamicAgent(c, capabilities, type) ==
    LET agentId == c.agentIdCounter
        agent == [capabilities |-> capabilities,
                  type |-> type,
                  status |-> "idle",
                  tasks |-> <<>>,
                  performance |-> [tasksCompleted |-> 0,
                                   avgExecutionTime |-> Rat(0, 1),
                                   successRate |-> 100]]
    IN [c EXCEPT !.agentIdCounter = @ + 1,
                 !.registry = @ \cup {agentId},
                 !.agents = [a \in DOMAIN c.agents \cup {agentId} |->
                                IF a = agentId THEN agent ELSE c.agents[a]]]

\* Array.from(this.agents.values()): Map iteration is insertion order, and
\* agents are inserted in the order of their numbers
RECURSIVE SetToSortedSeq(_)
SetToSortedSeq(S) ==
    IF S = {} THEN <<>>
    ELSE LET m == CHOOSE x \in S : \A y \in S : x <= y
         IN <<m>> \o SetToSortedSeq(S \ {m})

AvailableAgentsAny(c) == SetToSortedSeq(c.registry)

\* `.filter(a => a.status === 'idle')`
AvailableAgents(c) ==
    SetToSortedSeq({a \in c.registry : c.agents[a].status = "idle"})

\* a filter callback that lets every agent pass
IsCompatibleAlways(agent, task) == TRUE

\* the filter callback of compatibleAgents
IsCompatible(agent, task) ==
    IF task.requiredCapabilities = NoCaps THEN TRUE
    ELSE task.requiredCapabilities \subseteq agent.capabilities

\* compatibleAgents.reduce(...) without initial value: the first agent, replaced
\* by a later one only when that one's avgExecutionTime is strictly smaller
RECURSIVE ReduceBest(_, _, _, _)
ReduceBest(c, as, i, best) ==
    IF i > Len(as) THEN best
    ELSE ReduceBest(c, as, i + 1,
            IF RatLess(c.agents[as[i]].performance.avgExecutionTime,
                       c.agents[best].performance.avgExecutionTime)
            THEN as[i] ELSE best)

\* `task.requiredCapabilities || ['general']`: an empty array is truthy
SpawnCapabilities(task) ==
    IF task.requiredCapabilities = NoCaps THEN {"general"}
    ELSE task.requiredCapabilities

\* selectBestAgent(task): [c |-> state after it, agent |-> the agent returned]
SelectBestAgent(c, task) ==
    LET availableAgents == AvailableAgents(c)
        compatibleAgents == SelectSeq(availableAgents,
                                LAMBDA a : IsCompatible(c.agents[a], task))
    IN IF availableAgents = <<>>
       THEN [c |-> CreateDynamicAgent(c, SpawnCapabilities(task), "worker"),
             agent |-> c.agentIdCounter]
       ELSE IF compatibleAgents = <<>>
       THEN [c |-> CreateDynamicAgent(c, SpawnCapabilities(task), "specialist"),
             agent |-> c.agentIdCounter]
       ELSE [c |-> c,
             agent |-> ReduceBest(c, compatibleAgents, 2, compatibleAgents[1])]

\* executeTask(task) up to `await this.simulateTaskExecution(...)`
ExecuteTaskStart(c, t) ==
    LET taskId == c.taskIdCounter
        c1 == [c EXCEPT !.taskIdCounter = @ + 1,
                        !.tasks[t].id = taskId,
                        !.tasks[t].status = "executing"]
        sel == SelectBestAgent(c1, c1.tasks[t])
        bestAgent == sel.agent
    IN [sel.c EXCEPT !.agents[bestAgent].tasks = Append(@, taskId),
                     !.agents[bestAgent].status = "busy",
                     !.tasks[t].agent = bestAgent]

\* `batch.map(task => this.executeTask(task))`: the synchronous starts, in order
RECURSIVE StartBatch(_, _, _)
StartBatch(c, batch, k) ==
    IF k > Len(batch) THEN c
    ELSE StartBatch(ExecuteTaskStart(c, batch[k]), batch, k + 1)

BatchSlice(ts, i, size) ==
    SubSeq(ts, i + 1, IF i + size < Len(ts) THEN i + size ELSE Len(ts))

BatchOffByOne(call) == BatchSlice(call.tasks, call.i, maxParallel + 1)

\* `tasks.slice(i, i + maxParallel)`, i counted from 0 as in the code
Batch(call) == BatchSlice(call.tasks, call.i, maxParallel)

Settled(task) == task.status \in {"completed", "failed"}

\* Promise.race in place of Promise.allSettled: resolved as soon as one
\* promise of the batch has settled
AnySettled(ts, batch) == \E k \in DOMAIN batch : Settled(ts[batch[k]])

\* Promise.allSettled(batchPromises) has resolved
AllSettled(ts, batch) == \A k \in DOMAIN batch : Settled(ts[batch[k]])

\* executeParallelTasks with the `await` on Promise.allSettled left out: every
\* batch is started at once
EnterExecuteParallelNoAwait(c, call) == StartBatch(c, call.tasks, 1)

\* executeParallelTasks(tasks) up to the first `await Promise.allSettled(...)`
EnterExecuteParallel(c, call) == StartBatch(c, Batch(call), 1)

\* ---------------------------------------- OrchestratorController: actions
CtlInit ==
    /\ ctlTasks = <<>>
    /\ taskQueue = <<>>
    /\ agents = <<>>
    /\ registry = {}
    /\ taskIdCounter = 1
    /\ agentIdCounter = 1
    /\ calls = <<>>
    /\ maxParallel \in MaxParallelChoices
    /\ insights = <<>>

SetCtl(c) ==
    /\ ctlTasks' = c.tasks
    /\ agents' = c.agents
    /\ registry' = c.registry
    /\ taskIdCounter' = c.taskIdCounter
    /\ agentIdCounter' = c.agentIdCounter
    /\ UNCHANGED maxParallel

ActiveCalls == {k \in DOMAIN calls : ~calls[k].returned}

\* createTask(name, description, params, requiredCapabilities); deps is the
\* dependency set the caller declares for the task (createTask has no
\* parameter of its own for it, it travels in params): none, or the task
\* created just before it
CreateTask ==
    /\ Len(ctlTasks) < MaxCtlTasks
    /\ \E caps \in RequiredCapChoices :
       \E deps \in {{}, {Len(ctlTasks)} \cap DOMAIN ctlTasks} :
         /\ ctlTasks' = Append(ctlTasks,
                [requiredCapabilities |-> caps, dependencies |-> deps,
                 status |-> "pending", id |-> 0, agent |-> 0,
                 result |-> FALSE, error |-> "", executionTime |-> 0])
         /\ taskQueue' = Append(taskQueue, Len(ctlTasks) + 1)
    /\ UNCHANGED <<agents, registry, taskIdCounter, agentIdCounter, calls,
                   maxParallel, insights>>

\* the CLI command `agent`: createDynamicAgent with a fixed capability list
CreateAgent ==
    /\ agents = <<>>
    /\ SetCtl(CreateDynamicAgent(CtlState,
                {"code_analysis", "testing", "refactoring"}, "developer"))
    /\ UNCHANGED <<taskQueue, calls, insights>>

\* a shutdown that also starts the id counters again
ShutdownResettingCounters ==
    /\ registry # {} \/ taskQueue # <<>>
    /\ registry = DOMAIN agents
    /\ registry' = {}
    /\ taskQueue' = <<>>
    /\ taskIdCounter' = 1
    /\ agentIdCounter' = 1
    /\ UNCHANGED <<ctlTasks, agents, calls, maxParallel, insights>>

\* shutdown(): the Map and the queue are emptied; executeTask calls in
\* flight keep the agent objects they selected. The caller shuts down once
\* while agents are registered; the instance stays usable afterwards
Shutdown ==
    /\ registry # {} \/ taskQueue # <<>>
    /\ registry = DOMAIN agents
    /\ registry' = {}
    /\ taskQueue' = <<>>
    /\ UNCHANGED <<ctlTasks, agents, taskIdCounter, agentIdCounter, calls,
                   maxParallel, insights>>

\* a processTasks that copies the queue without its last task and empties it
ProcessTasksDroppingLast ==
    /\ Len(taskQueue) > 1
    /\ LET call == [tasks |-> SubSeq(taskQueue, 1, Len(taskQueue) - 1), i |-> 0,
                    results |-> <<>>, returned |-> FALSE]
       IN /\ calls' = Append(calls, call)
          /\ SetCtl(EnterExecuteParallel(CtlState, call))
    /\ taskQueue' = <<>>
    /\ UNCHANGED insights

\* processTasks(): take the queue, enter executeParallelTasks and start the
\* first batch, up to `await Promise.allSettled(...)`
ProcessTasks ==
    /\ taskQueue # <<>>
    /\ LET call == [tasks |-> taskQueue, i |-> 0, results |-> <<>>, returned |-> FALSE]
       IN /\ calls' = Append(calls, call)
          /\ SetCtl(EnterExecuteParallel(CtlState, call))
    /\ taskQueue' = <<>>
    /\ UNCHANGED insights

\* the CLI command `learn`: executeParallelTasks on two literal tasks that
\* carry neither requiredCapabilities nor dependencies
LearnCommand ==
    /\ Len(ctlTasks) + 2 <= MaxCtlTasks
    /\ LET t == Len(ctlTasks) + 1
           sample == [requiredCapabilities |-> NoCaps, dependencies |-> {},
                      status |-> "pending", id |-> 0, agent |-> 0,
                      result |-> FALSE, error |-> "", executionTime |-> 0]
           call == [tasks |-> <<t, t + 1>>, i |-> 0, results |-> <<>>,
                    returned |-> FALSE]
           c == [CtlState EXCEPT !.tasks = @ \o <<sample, sample>>]
       IN /\ calls' = Append(calls, call)
          /\ SetCtl(EnterExecuteParallel(c, call))
    /\ UNCHANGED <<taskQueue, insights>>

Outcome(task) == IF task.status = "completed" THEN "fulfilled" ELSE "rejected"

\* the rest of executeParallelTasks after a batch promise of call k settled:
\* nothing while the batch is not settled as a whole; then push the results,
\* advance i and start the next batch or return
AdvanceCall(c, k) ==
    LET call == calls[k]
        batch == Batch(call)
    IN IF ~AllSettled(c.tasks, batch) THEN [c |-> c, call |-> call]
       ELSE LET results == call.results \o
                    [j \in 1..Len(batch) |-> Outcome(c.tasks[batch[j]])]
                next == [call EXCEPT !.results = results, !.i = @ + maxParallel]
            IN IF next.i < Len(next.tasks)
               THEN [c |-> StartBatch(c, Batch(next), 1), call |-> next]
               ELSE [c |-> c, call |-> [next EXCEPT !.returned = TRUE]]

\* a continuation that stores a result whatever the outcome was
ExecuteTaskFinishAlwaysResult(c, t, outcome, executionTime) ==
    [c EXCEPT !.tasks[t].status = IF outcome = "resolved" THEN "completed" ELSE "failed",
              !.tasks[t].result = TRUE,
              !.tasks[t].error = IF outcome = "resolved" THEN "" ELSE "payload error",
              !.agents[c.tasks[t].agent].status = "idle"]

\* the continuation of executeTask after the awaited payload settled
ExecuteTaskFinish(c, t, outcome, executionTime) ==
    LET bestAgent == c.tasks[t].agent IN
    IF outcome = "resolved"
    THEN LET n == c.agents[bestAgent].performance.tasksCompleted + 1 IN
         [c EXCEPT !.tasks[t].status = "completed",
                   !.tasks[t].executionTime = executionTime,
                   !.tasks[t].result = TRUE,
                   !.agents[bestAgent].status = "idle",
                   !.agents[bestAgent].performance.tasksCompleted = n,
                   !.agents[bestAgent].performance.avgExecutionTime =
                        RunningMean(@, n, executionTime)]
    ELSE [c EXCEPT !.tasks[t].status = "failed",
                   !.tasks[t].error = "payload error"]

\* 0 / 0
NaN == Rat(0, 0)

\* n / d as JavaScript computes it for counts n, d
Quotient(n, d) == IF d = 0 THEN NaN ELSE Normalize(Rat(n, d))

\* `executionHistory.reduce((acc, t) => acc + (t.executionTime || 0), 0)`
RECURSIVE SumExecutionTime(_, _, _)
SumExecutionTime(c, history, i) ==
    IF i > Len(history) THEN 0
    ELSE c.tasks[history[i]].executionTime + SumExecutionTime(c, history, i + 1)

\* the insights object learnFromExecution builds; agentPerformance is keyed by
\* agent here, the names createDynamicAgent gives are one per agent
Insights(c, history) ==
    LET done == {i \in DOMAIN history : c.tasks[history[i]].status = "completed"}
    IN [totalTasks |-> Len(history),
        successRate |-> Quotient(Cardinality(done) * 100, Len(history)),
        avgExecutionTime |-> Quotient(SumExecutionTime(c, history, 1), Len(history)),
        agentPerformance |->
            [a \in c.registry |->
                [tasksCompleted |-> c.agents[a].performance.tasksCompleted,
                 avgTime |-> c.agents[a].performance.avgExecutionTime,
                 efficiency |-> c.agents[a].performance.successRate]]]

\* a learnFromExecution that stores what it computed in the agents' records
LearnFromExecutionStoring(c, history) ==
    [c |-> [c EXCEPT !.agents =
                [a \in DOMAIN @ |->
                    [@[a] EXCEPT !.performance.tasksCompleted = @ + Len(history)]]],
     insights |-> Insights(c, history)]

\* learnFromExecution(executionHistory): [c |-> state after it, insights |->
\* the object returned]
LearnFromExecution(c, history) == [c |-> c, insights |-> Insights(c, history)]

\* `results.filter(r => r.status === 'fulfilled').map(r => r.value)`: the
\* tasks of the call whose promise was fulfilled, in order
RECURSIVE FulfilledFrom(_, _)
FulfilledFrom(call, j) ==
    IF j > Len(call.results) THEN <<>>
    ELSE (IF call.results[j] = "fulfilled" THEN <<call.tasks[j]>> ELSE <<>>)
         \o FulfilledFrom(call, j + 1)

Fulfilled(call) == FulfilledFrom(call, 1)

\* the payload of task t of call k settles; executeTask finishes and, when the
\* whole batch is settled, executeParallelTasks goes on; when it returns, its
\* caller (processTasks, the `learn` command) calls learnFromExecution on the
\* fulfilled results
TaskSettles ==
    \E k \in ActiveCalls : \E j \in DOMAIN Batch(calls[k]) :
    \E outcome \in PayloadOutcomes : \E executionTime \in ExecTimes :
      LET t == Batch(calls[k])[j] IN
        /\ ctlTasks[t].status = "executing"
        /\ LET adv == AdvanceCall(
                          ExecuteTaskFinish(CtlState, t, outcome, executionTime), k)
               learn == LearnFromExecution(adv.c, Fulfilled(adv.call))
           IN /\ calls' = [calls EXCEPT ![k] = adv.call]
              /\ IF adv.call.returned
                 THEN SetCtl(learn.c) /\ insights' = <<learn.insights>>
                 ELSE SetCtl(adv.c) /\ UNCHANGED insights
        /\ UNCHANGED taskQueue

\* ------------------------------------------------ MasterOrchestrator: data
\* task.retries / task.type / task.requiredCapabilities when the field is missing
Undefined == "<undefined>"
NoRetries == -1

\* the agents of the configuration file, in file order: role,
\* specialization.primary, protocols.priority
AgentConfigs ==
    << [role |-> "Frontend Developer Agent", primary |-> {"react_hooks"}, priority |-> 8],
       [role |-> "CSS Styling Agent", primary |-> {"css"}, priority |-> 5],
       [role |-> "Documentation Agent", primary |-> {}, priority |-> 0],
       [role |-> "Documentation Agent", primary |-> {}, priority |-> 0] >>

\* the tasks callers hand to assignTask
TaskChoices ==
    { [requiredCapabilities |-> {"react"}, type |-> "frontend", retries |-> NoRetries],
      [requiredCapabilities |-> NoCaps, type |-> Undefined, retries |-> 1],
      [requiredCapabilities |-> {"css"}, type |-> Undefined, retries |-> 2] }

\* String.prototype.includes on the strings of the model
StrIncludes(str, sub) ==
    \/ str = sub
    \/ <<str, sub>> \in { <<"react_hooks", "react">>,
                          <<"frontend developer agent", "frontend">> }

ToLowerCase(str) ==
    CASE str = "Frontend Developer Agent" -> "frontend developer agent"
      [] str = "CSS Styling Agent" -> "css styling agent"
      [] str = "Documentation Agent" -> "documentation agent"
      [] OTHER -> str

\* the score selectBestAgent gives to an agent for a task
Score(agent, task) ==
    LET matches ==
            IF task.requiredCapabilities = NoCaps THEN {}
            ELSE {req \in task.requiredCapabilities :
                    \E cap \in agent.primary :
                        StrIncludes(cap, req) \/ StrIncludes(req, cap)}
    IN Cardinality(matches) * 10
       + (IF task.type # Undefined
             /\ StrIncludes(ToLowerCase(agent.role), ToLowerCase(task.type))
          THEN 5 ELSE 0)
       + agent.priority
       + (IF agent.status = "idle" THEN 3 ELSE 0)

\* the loop of selectBestAgent over the agents in Map order from index i;
\* best = 0 is null
RECURSIVE SelectLoop(_, _, _, _, _)
SelectLoop(ags, task, i, bestAgent, bestScore) ==
    IF i > Len(ags) THEN bestAgent
    ELSE LET score == Score(ags[i], task) IN
         IF score > bestScore
         THEN SelectLoop(ags, task, i + 1, i, score)
         ELSE SelectLoop(ags, task, i + 1, bestAgent, bestScore)

\* selectBestAgent(task): the id of the agent returned, 0 for null
MSelectBestAgent(ags, task) == SelectLoop(ags, task, 1, 0, 0)

\* the orchestrator state threaded through the synchronous part of a handler
MState == [agents |-> mAgents, tasks |-> mTasks, queue |-> mQueue,
           metrics |-> mMetrics, runs |-> mRuns,
           reported |-> mReported, isRunning |-> mIsRunning]

\* `if (agent.status !== 'idle')` of assignTask
AgentUnavailableNever(agent) == FALSE

AgentUnavailable(agent) == agent.status # "idle"

\* assignTask(task), with executeAgentTask up to `await switchBranch`. For an
\* agent without an entry in agentBranches switchBranch throws at once: the
\* catch block of executeAgentTask runs before any other handler and puts the
\* agent back to idle, the task is in no queue
AssignTask(m, t) ==
    LET a == MSelectBestAgent(m.agents, m.tasks[t]) IN
    IF a = 0 THEN m
    ELSE IF AgentUnavailable(m.agents[a])
    THEN [m EXCEPT !.queue = Append(@, t)]
    ELSE IF ~m.agents[a].hasBranch
    THEN [m EXCEPT !.agents[a].status = "idle",
                   !.agents[a].currentTask = 0]
    ELSE [m EXCEPT !.agents[a].status = "working",
                   !.agents[a].currentTask = t,
                   !.runs = @ \cup {[agent |-> a, task |-> t, phase |-> "switching"]}]

IdleAgentCount(m) ==
    Cardinality({a \in DOMAIN m.agents : m.agents[a].status = "idle"})

\* the while loop of processTaskQueue; idle is idleAgents.length
RECURSIVE ProcessQueueLoop(_, _)
ProcessQueueLoop(m, idle) ==
    IF Len(m.queue) > 0 /\ idle > 0
    THEN ProcessQueueLoop(
            AssignTask([m EXCEPT !.queue = Tail(@)], Head(m.queue)), idle - 1)
    ELSE m

\* processTaskQueue()
ProcessTaskQueue(m) ==
    IF Len(m.queue) = 0 THEN m ELSE ProcessQueueLoop(m, IdleAgentCount(m))

\* `task.retries < 3`: undefined < 3 is false
RetriesBelowLimit(task) == task.retries # NoRetries /\ task.retries < MaxRetries

\* handleTaskFailure(agent, task, executionTime)
HandleTaskFailure(m, a, t) ==
    LET m1 == [m EXCEPT !.metrics[a].tasksFailed = @ + 1,
                        !.reported = @ \cup {t}]
    IN IF RetriesBelowLimit(m.tasks[t])
       THEN [m1 EXCEPT !.tasks[t].retries =
                            (IF @ = NoRetries THEN 0 ELSE @) + 1,
                       !.tasks[t].excludeAgents = Append(@, a),
                       !.queue = <<t>> \o @]
       ELSE m1

\* handleTaskCompletion up to `await this.gitManager.commitChanges(...)`
HandleTaskCompletionStart(m, a, executionTime) ==
    LET n == m.metrics[a].tasksCompleted + 1 IN
    [m EXCEPT !.metrics[a].tasksCompleted = n,
              !.metrics[a].avgExecutionTime = RunningMean(@, n, executionTime)]

\* an 'exit' handler that sets the agent idle and leaves its currentTask
ReleaseAgentKeepingTask(m, r) ==
    ProcessTaskQueue([m EXCEPT !.agents[r.agent].worker = FALSE,
                               !.agents[r.agent].status = "idle",
                               !.runs = @ \ {r}])

\* the end of the worker 'exit' handler of run r
ReleaseAgent(m, r) ==
    ProcessTaskQueue([m EXCEPT !.agents[r.agent].worker = FALSE,
                               !.agents[r.agent].status = "idle",
                               !.agents[r.agent].currentTask = 0,
                               !.runs = @ \ {r}])

\* run r moves on to phase ph
SetPhase(m, r, ph) ==
    [m EXCEPT !.runs = (@ \ {r}) \cup {[r EXCEPT !.phase = ph]}]

\* Math.round of a rational that is not negative
Round(r) == (2 * r.num + r.den) \div (2 * r.den)

\* reportStatus: the successRate reported for an agent with these metrics
ReportedSuccessRate(metrics) ==
    IF metrics.tasksCompleted > 0
    THEN Round(Quotient(metrics.tasksCompleted * 100,
                        metrics.tasksCompleted + metrics.tasksFailed))
    ELSE 100

\* --------------------------------------------- MasterOrchestrator: actions
\* the state after initialize(): createAgentBranch records a branch for an
\* agent only when it created the branch, not when the branch already existed
MInit ==
    /\ \E branches \in [1..NumMAgents -> BOOLEAN] :
          mAgents = [a \in 1..NumMAgents |->
                        [role |-> AgentConfigs[a].role,
                         primary |-> AgentConfigs[a].primary,
                         priority |-> AgentConfigs[a].priority,
                         hasBranch |-> branches[a],
                         status |-> "idle", worker |-> FALSE,
                         currentTask |-> 0]]
    /\ mTasks = <<>>
    /\ mQueue = <<>>
    /\ mMetrics = [a \in 1..NumMAgents |->
                     [tasksCompleted |-> 0, tasksFailed |-> 0,
                      avgExecutionTime |-> Rat(0, 1)]]
    /\ mRuns = {}
    /\ mReported = {}
    /\ mIsRunning = TRUE

MOff ==
    /\ mAgents = <<>>
    /\ mTasks = <<>>
    /\ mQueue = <<>>
    /\ mMetrics = <<>>
    /\ mRuns = {}
    /\ mReported = {}
    /\ mIsRunning = FALSE

SetM(m) ==
    /\ mAgents' = m.agents
    /\ mTasks' = m.tasks
    /\ mQueue' = m.queue
    /\ mMetrics' = m.metrics
    /\ mRuns' = m.runs
    /\ mReported' = m.reported
    /\ mIsRunning' = m.isRunning

\* a caller (the CLI command `task`) hands a new task to assignTask; callers
\* hand no task to an orchestrator they have shut down
AssignNewTask ==
    /\ mIsRunning
    /\ Len(mTasks) < MaxMTasks
    /\ \E choice \in TaskChoices :
         LET t == Len(mTasks) + 1
             task == [requiredCapabilities |-> choice.requiredCapabilities,
                      type |-> choice.type, retries |-> choice.retries,
                      excludeAgents |-> <<>>]
             m == [MState EXCEPT !.tasks = Append(@, task)]
         IN SetM(AssignTask(m, t))

\* executeAgentTask after `await this.gitManager.switchBranch(agent.id)`: the
\* worker is created and started
WorkerStarts ==
    \E r \in mRuns :
        /\ r.phase = "switching"
        /\ SetM(SetPhase([MState EXCEPT !.agents[r.agent].worker = TRUE],
                         r, "running"))

\* switchBranch rejects or `new Worker` throws: the catch block of
\* executeAgentTask
WorkerStartFails ==
    \E r \in mRuns :
        /\ r.phase = "switching"
        /\ SetM([MState EXCEPT !.agents[r.agent].status = "idle",
                                !.agents[r.agent].currentTask = 0,
                                !.runs = @ \ {r}])

\* the worker's 'error' event
WorkerError ==
    \E r \in mRuns :
        /\ r.phase = "running"
        /\ SetM(SetPhase(HandleTaskFailure(MState, r.agent, r.task), r, "errored"))

\* the worker's 'exit' event with a code other than 0
WorkerExitFailure ==
    \E r \in mRuns :
        /\ r.phase \in {"running", "errored", "terminated"}
        /\ SetM(ReleaseAgent(HandleTaskFailure(MState, r.agent, r.task), r))

\* the worker's 'exit' event with code 0, up to the await of the commit
WorkerExitSuccess ==
    \E r \in mRuns : \E executionTime \in ExecTimes :
        /\ r.phase = "running"
        /\ SetM(SetPhase(HandleTaskCompletionStart(MState, r.agent, executionTime),
                         r, "committing"))

\* commitChanges and pushBranch resolve: the rest of handleTaskCompletion and
\* of the 'exit' handler
CommitDone ==
    \E r \in mRuns :
        /\ r.phase = "committing"
        /\ SetM(ReleaseAgent([MState EXCEPT !.reported = @ \cup {r.task}], r))

\* commitChanges or pushBranch rejects: the 'exit' handler ends there, the
\* agent is not released
CommitFails ==
    \E r \in mRuns :
        /\ r.phase = "committing"
        /\ SetM([MState EXCEPT !.runs = @ \ {r}])

\* shutdown(): isRunning is cleared and terminate() is called on every
\* attached worker; a terminated worker that has not exited yet emits 'exit'
\* with code 1 later on. The interval timers are not cleared
MasterShutdown ==
    /\ mIsRunning
    /\ SetM([MState EXCEPT
                !.isRunning = FALSE,
                !.runs = {IF r.phase = "running"
                          THEN [r EXCEPT !.phase = "terminated"] ELSE r : r \in @}])

\* the 5 s interval timer of startMonitoring
QueueTimer ==
    /\ Len(mQueue) > 0
    /\ SetM(ProcessTaskQueue(MState))

\* ------------------------------------------------- conflict resolution
\* the values of agent.protocols.priority in the configuration
PriorityChoices == {4, 7, 8, 9}

PriorityAtLeastThreshold(p) == p >= ConflictThreshold

\* `agent.protocols.priority > 7`
PriorityAboveThreshold(p) == p > ConflictThreshold

\* resolveConflict: `... ? 'ours' : 'theirs'`
ConflictStrategy(agent) ==
    IF PriorityAboveThreshold(agent.priority) THEN "ours" ELSE "theirs"

\* resolveConflicts: `strategy === 'theirs' ? 'theirs' : 'ours'`
MergeStrategy(strategy) == IF strategy = "theirs" THEN "theirs" ELSE "ours"

CInit ==
    /\ cAgents \in [1..NumCAgents -> [priority : PriorityChoices,
                                      hasBranch : BOOLEAN]]
    /\ cCalls = <<>>
    /\ cMerges = <<>>
    /\ cQueue = <<>>

COff ==
    /\ cAgents = <<>>
    /\ cCalls = <<>>
    /\ cMerges = <<>>
    /\ cQueue = <<>>

\* handleConflictEvent -> resolveConflict(agentId) -> resolveConflicts up to
\* the await inside switchBranch; without a recorded branch resolveConflicts
\* throws and resolveConflict logs the failure
ConflictDetected ==
    /\ Len(cCalls) < MaxConflicts
    /\ \E a \in DOMAIN cAgents :
          cCalls' = Append(cCalls,
              [agent |-> a,
               strategy |-> ConflictStrategy(cAgents[a]),
               phase |-> IF cAgents[a].hasBranch THEN "switching" ELSE "failed"])
    /\ UNCHANGED <<cAgents, cMerges, cQueue>>

\* switchBranch resolved: the merge command is issued
ConflictSwitchDone ==
    \E k \in DOMAIN cCalls :
        /\ cCalls[k].phase = "switching"
        /\ cMerges' = Append(cMerges,
                [call |-> k, agent |-> cCalls[k].agent,
                 option |-> MergeStrategy(cCalls[k].strategy)])
        /\ cCalls' = [cCalls EXCEPT ![k].phase = "merging"]
        /\ UNCHANGED <<cAgents, cQueue>>

\* switchBranch rejected: resolveConflict logs the failure
ConflictSwitchFails ==
    \E k \in DOMAIN cCalls :
        /\ cCalls[k].phase = "switching"
        /\ cCalls' = [cCalls EXCEPT ![k].phase = "failed"]
        /\ UNCHANGED <<cAgents, cMerges, cQueue>>

\* the merge succeeded: conflict:resolved is emitted
ConflictMergeDone ==
    \E k \in DOMAIN cCalls :
        /\ cCalls[k].phase = "merging"
        /\ cCalls' = [cCalls EXCEPT ![k].phase = "resolved"]
        /\ UNCHANGED <<cAgents, cMerges, cQueue>>

\* the merge failed: the agent goes to conflictResolutionQueue, the error is
\* rethrown and resolveConflict logs it
ConflictMergeFails ==
    \E k \in DOMAIN cCalls :
        /\ cCalls[k].phase = "merging"
        /\ cQueue' = Append(cQueue, cCalls[k].agent)
        /\ cCalls' = [cCalls EXCEPT ![k].phase = "failed"]
        /\ UNCHANGED <<cAgents, cMerges>>

\* ---------------------------------------------------------------- BaseAgent
\* the ids callers give their tasks (`task.id`); two tasks may carry the same
\* id, and tasks without id get `task_${Date.now()}`, the same for two calls
\* in one millisecond
BaseTaskIds == {1, 2}

\* what callers pass as config.maxConcurrentTasks
MaxConcurrentChoices == {1, 2}

\* the state after the constructor
BInit ==
    /\ bStatus = "initializing"
    /\ bMax \in MaxConcurrentChoices
    /\ bActive = {}
    /\ bRuns = <<>>
    /\ bHistory = <<>>
    /\ bPerformance = [tasksCompleted |-> 0, tasksSuccessful |-> 0,
                       tasksFailed |-> 0, avgExecutionTime |-> Rat(0, 1)]

BOff ==
    /\ bStatus = "off"
    /\ bMax = 0
    /\ bActive = {}
    /\ bRuns = <<>>
    /\ bHistory = <<>>
    /\ bPerformance = <<>>

\* initialize(): setup() of the subclass resolves or rejects
BaseInitialize ==
    /\ bStatus = "initializing"
    /\ \E ok \in BOOLEAN : bStatus' = IF ok THEN "ready" ELSE "error"
    /\ UNCHANGED <<bMax, bActive, bRuns, bHistory, bPerformance>>

\* executeTask(task) up to `await this.performTask(task)`; the status of the
\* agent is not looked at
BaseExecuteTask ==
    /\ Len(bRuns) < MaxBaseTasks
    /\ \E taskId \in BaseTaskIds :
         IF Cardinality(bActive) >= bMax
         THEN /\ bRuns' = Append(bRuns, [taskId |-> taskId, state |-> "refused"])
              /\ UNCHANGED bActive
         ELSE /\ bRuns' = Append(bRuns, [taskId |-> taskId, state |-> "executing"])
              /\ bActive' = bActive \cup {taskId}
    /\ UNCHANGED <<bStatus, bMax, bHistory, bPerformance>>

\* updatePerformance(executionTime, success)
UpdatePerformance(performance, executionTime, success) ==
    LET n == performance.tasksCompleted + 1 IN
    [performance EXCEPT
        !.tasksCompleted = n,
        !.tasksSuccessful = IF success THEN @ + 1 ELSE @,
        !.tasksFailed = IF success THEN @ ELSE @ + 1,
        !.avgExecutionTime = RunningMean(@, n, executionTime)]

\* completedTask / failedTask: `{...task, id, result | error, status, ...}`
HistoryRecord(taskId, success) ==
    IF success
    THEN [id |-> taskId, result |-> TRUE, error |-> "", status |-> "completed"]
    ELSE [id |-> taskId, result |-> FALSE, error |-> "performTask error",
          status |-> "failed"]

\* performTask of run n settles: the rest of the try block or the catch block
BaseTaskSettles ==
    \E n \in DOMAIN bRuns : \E success \in BOOLEAN : \E executionTime \in ExecTimes :
        /\ bRuns[n].state = "executing"
        /\ bPerformance' = UpdatePerformance(bPerformance, executionTime, success)
        /\ bHistory' = Append(bHistory, HistoryRecord(bRuns[n].taskId, success))
        /\ bActive' = bActive \ {bRuns[n].taskId}
        /\ bRuns' = [bRuns EXCEPT ![n].state = IF success THEN "completed" ELSE "failed"]
        /\ UNCHANGED <<bStatus, bMax>>

\* shutdown() up to the await; with no active task it runs to its end
BaseShutdown ==
    /\ bStatus \notin {"shutting_down", "stopped"}
    /\ bStatus' = IF bActive = {} THEN "stopped" ELSE "shutting_down"
    /\ UNCHANGED <<bMax, bActive, bRuns, bHistory, bPerformance>>

\* the 100 ms interval of shutdown finds activeTasks empty: the promise
\* resolves and shutdown runs to its end
BaseShutdownDrained ==
    /\ bStatus = "shutting_down"
    /\ bActive = {}
    /\ bStatus' = "stopped"
    /\ UNCHANGED <<bMax, bActive, bRuns, bHistory, bPerformance>>

\* ---------------------------------------------------------------- CoreAgent
\* the value of `undefined++` and of every later `++` on it
NotANumber == "NaN"

KState == [status |-> kStatus, currentTask |-> kCurrentTask,
           metrics |-> kMetrics, calls |-> kCalls]

SetK(k) ==
    /\ kStatus' = k.status
    /\ kCurrentTask' = k.currentTask
    /\ kMetrics' = k.metrics
    /\ kCalls' = k.calls

\* the state after the constructor: the metrics object is created with the
\* key `tasksFailedled`, so metrics.tasksFailed is undefined
KInit ==
    /\ kStatus = "initializing"
    /\ kCurrentTask = 0
    /\ kMetrics = [tasksCompleted |-> 0, tasksFailed |-> Undefined,
                   avgExecutionTime |-> Rat(0, 1), successRate |-> Rat(100, 1)]
    /\ kCalls = <<>>

KOff ==
    /\ kStatus = "off"
    /\ kCurrentTask = 0
    /\ kMetrics = <<>>
    /\ kCalls = <<>>

\* updateMetrics(success, executionTime): `undefined++` and `NaN++` give NaN,
\* and a difference with undefined or NaN is NaN
UpdateMetrics(metrics, success, executionTime) ==
    LET n == metrics.tasksCompleted + 1 IN
    [metrics EXCEPT
        !.tasksCompleted = n,
        !.tasksFailed = IF success THEN @ ELSE NotANumber,
        !.avgExecutionTime = RunningMean(@, n, executionTime),
        !.successRate = NaN]

\* an executeTask whose status test stands inside the try block: the finally
\* block runs after the throw
CoreExecuteTaskStartInTry(k) ==
    LET call == Len(k.calls) + 1 IN
    IF k.status # "idle"
    THEN [k EXCEPT !.calls = Append(@, "thrown"),
                   !.currentTask = 0, !.status = "idle"]
    ELSE [k EXCEPT !.calls = Append(@, "processing"),
                   !.currentTask = call, !.status = "busy"]

\* executeTask(task) up to `await this.processTask(task)`, or to the throw
\* when the agent is not idle
CoreExecuteTaskStart(k) ==
    LET call == Len(k.calls) + 1 IN
    IF k.status # "idle"
    THEN [k EXCEPT !.calls = Append(@, "thrown")]
    ELSE [k EXCEPT !.calls = Append(@, "processing"),
                   !.currentTask = call, !.status = "busy"]

\* initialize()
CoreInitialize ==
    /\ kStatus = "initializing"
    /\ kStatus' = "idle"
    /\ UNCHANGED <<kCurrentTask, kMetrics, kCalls>>

\* a caller calls executeTask
CoreExecuteTask ==
    /\ kStatus # "off"
    /\ Len(kCalls) < MaxCoreCalls
    /\ SetK(CoreExecuteTaskStart(KState))

\* processTask of call n settles: the rest of the try block or the catch
\* block, then the finally block
CoreTaskSettles ==
    \E n \in DOMAIN kCalls : \E success \in BOOLEAN : \E executionTime \in ExecTimes :
        /\ kCalls[n] = "processing"
        /\ SetK([KState EXCEPT
                    !.metrics = UpdateMetrics(@, success, executionTime),
                    !.calls[n] = IF success THEN "returned" ELSE "rethrown",
                    !.currentTask = 0,
                    !.status = "idle"])

\* shutdown()
CoreShutdown ==
    /\ kStatus \notin {"off", "shutdown"}
    /\ kStatus' = "shutdown"
    /\ UNCHANGED <<kCurrentTask, kMetrics, kCalls>>

\* --------------------------------------- CoordinatorAgent.resolveDependencies
\* the for-loop of one pass from index i: a task whose dependencies are all
\* resolved and that is not resolved itself is pushed and resolved at once,
\* so later tasks of the same pass see it
RECURSIVE ResolveScan(_, _, _, _, _)
ResolveScan(ts, i, deps, order, resolved) ==
    IF i > Len(ts) THEN [order |-> order, resolved |-> resolved]
    ELSE LET id == ts[i] IN
         IF DepsOf(deps, id) \subseteq resolved /\ id \notin resolved
         THEN ResolveScan(ts, i + 1, deps, Append(order, id), resolved \cup {id})
         ELSE ResolveScan(ts, i + 1, deps, order, resolved)

\* `resolved.size < tasks.length`
ResolveGoesOn(resolved, ts) == Cardinality(resolved) < Len(ts)

\* the inner loop of identifyParallelTasks from index j: an unprocessed id
\* joins the phase when it does not list the phase's first id among its
\* dependencies and is not listed among the dependencies of that first id
RECURSIVE PhaseFill(_, _, _, _, _, _)
PhaseFill(order, j, deps, taskId, phase, processed) ==
    IF j > Len(order) THEN [phase |-> phase, processed |-> processed]
    ELSE LET otherId == order[j] IN
         IF /\ otherId \notin processed
            /\ taskId \notin DepsOf(deps, otherId)
            /\ otherId \notin DepsOf(deps, taskId)
         THEN PhaseFill(order, j + 1, deps, taskId, Append(phase, otherId),
                        processed \cup {otherId})
         ELSE PhaseFill(order, j + 1, deps, taskId, phase, processed)

\* identifyParallelTasks(order, dependencies): the outer loop from index i
RECURSIVE IdentifyParallelTasks(_, _, _, _, _)
IdentifyParallelTasks(order, i, deps, phases, processed) ==
    IF i > Len(order) THEN phases
    ELSE IF order[i] \in processed
         THEN IdentifyParallelTasks(order, i + 1, deps, phases, processed)
         ELSE LET filled == PhaseFill(order, 1, deps, order[i], <<order[i]>>,
                                      processed \cup {order[i]}) IN
              IdentifyParallelTasks(order, i + 1, deps,
                                    Append(phases, filled.phase), filled.processed)

RInit ==
    /\ \E n \in 0..MaxTasks : rTasks \in [1..n -> TaskIds]
    /\ rDeps \in {d \in [SeqToSet(rTasks) -> SUBSET TaskIds] : NumEdges(d) <= MaxEdges}
    /\ rOrder = <<>>
    /\ rResolved = {}
    /\ rPc = "start"
    /\ rParallel = <<>>

ROff ==
    /\ rTasks = <<>>
    /\ rDeps = <<>>
    /\ rOrder = <<>>
    /\ rResolved = {}
    /\ rPc = "off"
    /\ rParallel = <<>>

\* resolveDependencies(params) up to the first test of the while condition
ResolveDependencies ==
    /\ rPc = "start"
    /\ rPc' = IF ResolveGoesOn(rResolved, rTasks) THEN "loop" ELSE "returned"
    /\ rParallel' = IF ResolveGoesOn(rResolved, rTasks) THEN <<>>
                    ELSE IdentifyParallelTasks(rOrder, 1, rDeps, <<>>, {})
    /\ UNCHANGED <<rTasks, rDeps, rOrder, rResolved>>

\* one pass of the while loop and the next test of its condition; there is
\* no other way out of the loop
ResolvePass ==
    /\ rPc = "loop"
    /\ LET pass == ResolveScan(rTasks, 1, rDeps, rOrder, rResolved) IN
         /\ rOrder' = pass.order
         /\ rResolved' = pass.resolved
         /\ rPc' = IF ResolveGoesOn(pass.resolved, rTasks) THEN "loop" ELSE "returned"
         /\ rParallel' = IF ResolveGoesOn(pass.resolved, rTasks) THEN <<>>
                         ELSE IdentifyParallelTasks(pass.order, 1, rDeps, <<>>, {})
    /\ UNCHANGED <<rTasks, rDeps>>

InitPlan == program = "plan" /\ PlanInit /\ CtlInit /\ MOff /\ COff /\ BOff /\ KOff /\ ROff

NextPlan ==
    \/ CoordinateAgents /\ UNCHANGED <<program, ctlVars, mVars, cVars, bVars, kVars, rVars>>
    \/ PlanBreak /\ UNCHANGED <<program, ctlVars, mVars, cVars, bVars, kVars, rVars>>
    \/ PlanPass /\ UNCHANGED <<program, ctlVars, mVars, cVars, bVars, kVars, rVars>>

SpecPlan == InitPlan /\ [][NextPlan]_vars

InitPlanAny ==
    program = "plan" /\ PlanAnyInit /\ CtlInit /\ MOff /\ COff /\ BOff /\ KOff /\ ROff

\* buildExecutionPlan is synchronous: once called, it keeps running
SpecPlanAny == InitPlanAny /\ [][NextPlan]_vars /\ WF_vars(NextPlan)

InitCtl == program = "controller" /\ PlanOff /\ CtlInit /\ MOff /\ COff /\ BOff /\ KOff /\ ROff

NextCtl ==
    \/ CreateTask /\ UNCHANGED <<program, planVars, mVars, cVars, bVars, kVars, rVars>>
    \/ CreateAgent /\ UNCHANGED <<program, planVars, mVars, cVars, bVars, kVars, rVars>>
    \/ ProcessTasks /\ UNCHANGED <<program, planVars, mVars, cVars, bVars, kVars, rVars>>
    \/ LearnCommand /\ UNCHANGED <<program, planVars, mVars, cVars, bVars, kVars, rVars>>
    \/ TaskSettles /\ UNCHANGED <<program, planVars, mVars, cVars, bVars, kVars, rVars>>
    \/ Shutdown /\ UNCHANGED <<program, planVars, mVars, cVars, bVars, kVars, rVars>>

SpecCtl == InitCtl /\ [][NextCtl]_vars

CtlOff ==
    /\ ctlTasks = <<>>
    /\ taskQueue = <<>>
    /\ agents = <<>>
    /\ registry = {}
    /\ taskIdCounter = 1
    /\ agentIdCounter = 1
    /\ calls = <<>>
    /\ maxParallel = 0
    /\ insights = <<>>

InitMaster == program = "master" /\ PlanOff /\ CtlOff /\ MInit /\ COff /\ BOff /\ KOff /\ ROff

NextMaster ==
    \/ AssignNewTask /\ UNCHANGED <<program, planVars, ctlVars, cVars, bVars, kVars, rVars>>
    \/ WorkerStarts /\ UNCHANGED <<program, planVars, ctlVars, cVars, bVars, kVars, rVars>>
    \/ WorkerStartFails /\ UNCHANGED <<program, planVars, ctlVars, cVars, bVars, kVars, rVars>>
    \/ WorkerError /\ UNCHANGED <<program, planVars, ctlVars, cVars, bVars, kVars, rVars>>
    \/ WorkerExitFailure /\ UNCHANGED <<program, planVars, ctlVars, cVars, bVars, kVars, rVars>>
    \/ WorkerExitSuccess /\ UNCHANGED <<program, planVars, ctlVars, cVars, bVars, kVars, rVars>>
    \/ CommitDone /\ UNCHANGED <<program, planVars, ctlVars, cVars, bVars, kVars, rVars>>
    \/ CommitFails /\ UNCHANGED <<program, planVars, ctlVars, cVars, bVars, kVars, rVars>>
    \/ QueueTimer /\ UNCHANGED <<program, planVars, ctlVars, cVars, bVars, kVars, rVars>>

SpecMaster == InitMaster /\ [][NextMaster]_vars

\* the orchestrator with its shutdown
NextMasterLife ==
    \/ NextMaster
    \/ MasterShutdown /\ UNCHANGED <<program, planVars, ctlVars, cVars, bVars, kVars, rVars>>

SpecMasterLife == InitMaster /\ [][NextMasterLife]_vars

InitConflict == program = "master-sync" /\ PlanOff /\ CtlOff /\ MOff /\ CInit /\ BOff /\ KOff /\ ROff

NextConflict ==
    \/ ConflictDetected /\ UNCHANGED <<program, planVars, ctlVars, mVars, bVars, kVars, rVars>>
    \/ ConflictSwitchDone /\ UNCHANGED <<program, planVars, ctlVars, mVars, bVars, kVars, rVars>>
    \/ ConflictSwitchFails /\ UNCHANGED <<program, planVars, ctlVars, mVars, bVars, kVars, rVars>>
    \/ ConflictMergeDone /\ UNCHANGED <<program, planVars, ctlVars, mVars, bVars, kVars, rVars>>
    \/ ConflictMergeFails /\ UNCHANGED <<program, planVars, ctlVars, mVars, bVars, kVars, rVars>>

SpecConflict == InitConflict /\ [][NextConflict]_vars

InitBase == program = "base-agent" /\ PlanOff /\ CtlOff /\ MOff /\ COff /\ BInit /\ KOff /\ ROff

NextBase ==
    \/ BaseInitialize /\ UNCHANGED <<program, planVars, ctlVars, mVars, cVars, kVars, rVars>>
    \/ BaseExecuteTask /\ UNCHANGED <<program, planVars, ctlVars, mVars, cVars, kVars, rVars>>
    \/ BaseTaskSettles /\ UNCHANGED <<program, planVars, ctlVars, mVars, cVars, kVars, rVars>>
    \/ BaseShutdown /\ UNCHANGED <<program, planVars, ctlVars, mVars, cVars, kVars, rVars>>
    \/ BaseShutdownDrained /\ UNCHANGED <<program, planVars, ctlVars, mVars, cVars, kVars, rVars>>

SpecBase == InitBase /\ [][NextBase]_vars

InitCore ==
    program = "core-agent" /\ PlanOff /\ CtlOff /\ MOff /\ COff /\ BOff /\ KInit /\ ROff

NextCore ==
    \/ CoreInitialize /\ UNCHANGED <<program, planVars, ctlVars, mVars, cVars, bVars, rVars>>
    \/ CoreExecuteTask /\ UNCHANGED <<program, planVars, ctlVars, mVars, cVars, bVars, rVars>>
    \/ CoreTaskSettles /\ UNCHANGED <<program, planVars, ctlVars, mVars, cVars, bVars, rVars>>
    \/ CoreShutdown /\ UNCHANGED <<program, planVars, ctlVars, mVars, cVars, bVars, rVars>>

SpecCore == InitCore /\ [][NextCore]_vars

InitResolve ==
    program = "coordinator" /\ PlanOff /\ CtlOff /\ MOff /\ COff /\ BOff /\ KOff /\ RInit

NextResolve ==
    \/ ResolveDependencies /\ UNCHANGED <<program, planVars, ctlVars, mVars, cVars, bVars, kVars>>
    \/ ResolvePass /\ UNCHANGED <<program, planVars, ctlVars, mVars, cVars, bVars, kVars>>

SpecResolve == InitResolve /\ [][NextResolve]_vars

\* the two task executors that leave result and error on task records
InitExec == InitCtl \/ InitBase

NextExec ==
    \/ program = "controller" /\ NextCtl
    \/ program = "base-agent" /\ NextBase

SpecExec == InitExec /\ [][NextExec]_vars

\* whichever entry point the process was started with
Init == InitCtl \/ InitMaster

Next ==
    \/ program = "controller" /\ NextCtl
    \/ program = "master" /\ NextMaster

Spec == Init /\ [][Next]_vars

\* ------------------------------------------- controller: claim formulas
Executing(t) == ctlTasks[t].status = "executing"

\* the tasks of call k that are executing
ExecutingOf(k) ==
    {j \in DOMAIN calls[k].tasks : Executing(calls[k].tasks[j])}

\* C3: a task is executing only when every task it declares as a dependency
\* is completed.
C3_ExecutingOnlyAfterDependencies ==
    \A t \in DOMAIN ctlTasks :
        Executing(t) =>
            \A d \in ctlTasks[t].dependencies : ctlTasks[d].status = "completed"

\* C4: within one executeParallelTasks call at most maxParallel of its tasks
\* are executing at the same time.
C4_AtMostMaxParallelExecuting ==
    \A k \in DOMAIN calls : Cardinality(ExecutingOf(k)) <= maxParallel

C4_Witness ==
    \E k \in DOMAIN calls :
        /\ Len(calls[k].tasks) > maxParallel
        /\ Cardinality(ExecutingOf(k)) = maxParallel
        /\ \E j \in DOMAIN calls[k].tasks :
              ctlTasks[calls[k].tasks[j]].status = "pending"

\* C7: a failed task carries its error message, and once every started
\* execution has settled no agent is left busy.
C7_FailureFreesAgent ==
    /\ \A t \in DOMAIN ctlTasks :
          ctlTasks[t].status = "failed" => ctlTasks[t].error # ""
    /\ (\A t \in DOMAIN ctlTasks : ~Executing(t)) =>
          \A a \in DOMAIN agents : agents[a].status # "busy"

\* the 0-based index of the batch that position j of a call belongs to
BatchIndex(j) == (j - 1) \div maxParallel

C11_OneOutcomePerTaskInOrder ==
    \A k \in DOMAIN calls :
        LET call == calls[k] IN
        /\ \A j \in DOMAIN call.results :
              /\ j \in DOMAIN call.tasks
              /\ Settled(ctlTasks[call.tasks[j]])
              /\ call.results[j] = Outcome(ctlTasks[call.tasks[j]])
        /\ call.returned => Len(call.results) = Len(call.tasks)
        /\ ~call.returned => Len(call.results) = call.i

\* a returned call in which an earlier task failed and a later one completed
C11_Witness ==
    \E k \in DOMAIN calls : \E j, h \in DOMAIN calls[k].tasks :
        /\ calls[k].returned
        /\ j < h
        /\ calls[k].results[j] = "rejected"
        /\ calls[k].results[h] = "fulfilled"
        /\ ctlTasks[calls[k].tasks[j]].status = "failed"
        /\ ctlTasks[calls[k].tasks[h]].status = "completed"

\* the histories learnFromExecution is looked at with: no task, and the
\* fulfilled tasks of each executeParallelTasks call so far
Histories == {<<>>} \cup {Fulfilled(calls[k]) : k \in DOMAIN calls}

\* C19: learnFromExecution changes no agent, task, queue or counter, and a
\* second call on the same history with the same registry returns the same
\* insights as the first.
C19_LearnReadOnlyIdempotent ==
    \A history \in Histories :
        LET first == LearnFromExecution(CtlState, history)
            second == LearnFromExecution(first.c, history)
        IN /\ first.c = CtlState
           /\ second.c = CtlState
           /\ second.insights = first.insights

\* learnFromExecution has returned insights on a non-empty history while
\* another task is executing on a busy agent
C19_Witness ==
    /\ insights # <<>>
    /\ insights[1].totalTasks >= 1
    /\ \E t \in DOMAIN ctlTasks :
          Executing(t) /\ agents[ctlTasks[t].agent].status = "busy"

\* C25: no agent is removed from the registry while a task assigned to it
\* is still executing.
C25_AgentsOutliveTheirTasks ==
    \A t \in DOMAIN ctlTasks : Executing(t) => ctlTasks[t].agent \in registry

\* the tasks executeTask has given an id
Started == {t \in DOMAIN ctlTasks : ctlTasks[t].status # "pending"}

\* C27: every id issued is new: no two task executions carry the same
\* task id, and an agent created never gets the id of an agent created
\* before it, also when shutdown has emptied the registry in between.
C27_IdsUniqueForLifetime ==
    /\ [](/\ \A s, t \in Started : s # t => ctlTasks[s].id # ctlTasks[t].id
          /\ \A t \in Started : ctlTasks[t].id \in 1..(taskIdCounter - 1)
          /\ DOMAIN agents = 1..(agentIdCounter - 1))
    /\ [][/\ \A a \in agentIdCounter..(agentIdCounter' - 1) :
                a \notin DOMAIN agents /\ a \in registry'
          /\ Cardinality(DOMAIN agents') =
                Cardinality(DOMAIN agents) + (agentIdCounter' - agentIdCounter)
          /\ \A t \in DOMAIN ctlTasks :
                t \in Started' \ Started =>
                    ctlTasks'[t].id \in taskIdCounter..(taskIdCounter' - 1)]_vars

\* after a shutdown (an agent object is no longer registered) a new agent is
\* registered and two task executions have their ids
C27_Witness ==
    /\ \E a \in DOMAIN agents : a \notin registry
    /\ registry # {}
    /\ Cardinality(Started) >= 2

\* C28: the registry never holds more agents than the configured
\* performance.max_agents.
C28_RegistryWithinMaxAgents ==
    \A max_agents \in MaxAgentsChoices : Cardinality(registry) <= max_agents

\* the number of places that hold task t: positions of the queue q and
\* positions of the task lists of the processTasks calls cs
QueuedOrTaken(q, cs, t) ==
    Cardinality({i \in DOMAIN q : q[i] = t}) +
    Cardinality({pos \in (DOMAIN cs) \X (1..MaxCtlTasks) :
                    /\ pos[2] \in DOMAIN cs[pos[1]].tasks
                    /\ cs[pos[1]].tasks[pos[2]] = t})

\* the task objects made by createTask (the `learn` command makes its own)
CreatedTasks == {t \in DOMAIN ctlTasks : ctlTasks[t].requiredCapabilities # NoCaps}

\* the step of shutdown(), which throws the queue away
QueueDiscarded == taskQueue # <<>> /\ taskQueue' = <<>> /\ calls' = calls

\* C35: every task made by createTask is run exactly once by processTasks: it
\* is never held twice (twice in the queue, in the queue and in a call, or in
\* two calls), it is pending while it waits in the queue, no createTask or
\* processTasks step loses it, a new task enters the queue and no running
\* call, and once settled it is not run again.
C35_CreatedTasksRunExactlyOnce ==
    /\ [](\A t \in CreatedTasks :
            /\ QueuedOrTaken(taskQueue, calls, t) <= 1
            /\ t \in SeqToSet(taskQueue) => ctlTasks[t].status = "pending")
    /\ [][~QueueDiscarded =>
            /\ \A t \in CreatedTasks :
                  /\ QueuedOrTaken(taskQueue', calls', t) = QueuedOrTaken(taskQueue, calls, t)
                  /\ Settled(ctlTasks[t]) => ctlTasks'[t].status = ctlTasks[t].status
            /\ \A t \in (DOMAIN ctlTasks') \ (DOMAIN ctlTasks) :
                  ctlTasks'[t].requiredCapabilities # NoCaps =>
                      /\ t \in SeqToSet(taskQueue')
                      /\ QueuedOrTaken(taskQueue', calls', t) = 1]_vars

\* two overlapping processTasks calls, the second with a task that was
\* created while the batch of the first was running
C35_Witness ==
    /\ Len(calls) = 2
    /\ ~calls[1].returned
    /\ CreatedTasks = {1, 2}
    /\ calls[1].tasks = <<1>>
    /\ calls[2].tasks = <<2>>
    /\ ctlTasks[1].status = "executing"
    /\ ctlTasks[2].status = "executing"

\* ------------------------------------- agent assignment: claim formulas
\* the agent MasterOrchestrator.selectBestAgent returns for task t, 0 for null
SelectedFor(t) == MSelectBestAgent(mAgents, mTasks[t])

\* C5: an agent is never given a second task while it is busy/working with
\* one: no two executing tasks of the controller hold the same agent and the
\* agent of an executing task is busy; no two executeAgentTask runs of the
\* master hold the same agent and the agent of a run is working on that run's
\* task.
C5_NoAgentWithTwoTasks ==
    /\ \A t1, t2 \in DOMAIN ctlTasks :
          (Executing(t1) /\ Executing(t2) /\ t1 # t2) =>
              ctlTasks[t1].agent # ctlTasks[t2].agent
    /\ \A t \in DOMAIN ctlTasks :
          Executing(t) => agents[ctlTasks[t].agent].status = "busy"
    /\ \A r1, r2 \in mRuns : r1.agent = r2.agent => r1 = r2
    /\ \A r \in mRuns :
          /\ mAgents[r.agent].status = "working"
          /\ mAgents[r.agent].currentTask = r.task

\* an agent is running one task and another task, for which the selector
\* picks that same agent, waits in the queue
C5_Witness ==
    \E r \in mRuns : \E i \in DOMAIN mQueue :
        /\ mQueue[i] # r.task
        /\ SelectedFor(mQueue[i]) = r.agent

\* the tasks OrchestratorController.selectBestAgent can be called with
CtlTaskChoices ==
    {[requiredCapabilities |-> caps] : caps \in RequiredCapChoices \cup {NoCaps}}

\* OrchestratorController.selectBestAgent returns an idle agent, whatever the
\* task
CtlSelectorReturnsIdle ==
    \A task \in CtlTaskChoices :
        LET sel == SelectBestAgent(CtlState, task)
        IN sel.c.agents[sel.agent].status = "idle"

C12_NoTaskSilentlyDropped ==
    \A t \in DOMAIN mTasks :
        \/ \E a \in DOMAIN mAgents : mAgents[a].currentTask = t
        \/ \E i \in DOMAIN mQueue : mQueue[i] = t
        \/ t \in mReported

\* ------------------------------------------- agent spawning: claim formulas
\* C13: whatever the registry holds (nothing, busy agents only, no idle agent
\* with the required capabilities) and whatever the task requires,
\* OrchestratorController.selectBestAgent returns an agent of the registry,
\* so executeTask never takes its 'No suitable agent available' branch; every
\* task that was started has such an agent.
C13_SelectorAlwaysReturnsAgent ==
    /\ \A task \in CtlTaskChoices :
          LET sel == SelectBestAgent(CtlState, task)
          IN sel.agent \in sel.c.registry
    /\ \A t \in DOMAIN ctlTasks :
          ctlTasks[t].status # "pending" => ctlTasks[t].agent \in DOMAIN agents

\* a task runs on a specialist that was spawned while an idle agent without
\* the required capabilities was at hand, and on a worker spawned while no
\* agent was idle
C13_Witness ==
    \E a, b \in DOMAIN agents : \E t \in DOMAIN ctlTasks :
        /\ agents[a].type = "specialist"
        /\ agents[b].status = "idle"
        /\ agents[b].type = "worker"
        /\ Executing(t)
        /\ ctlTasks[t].agent = a

\* the idle agents of the registry that have every capability in caps
IdleWithAll(caps) ==
    {a \in registry :
        agents[a].status = "idle" /\ caps \subseteq agents[a].capabilities}

SpawnedFor(a, t) ==
    /\ ctlTasks[t].status # "pending"
    /\ ctlTasks[t].agent = a
    /\ agents[a].type \in {"worker", "specialist"}
    /\ agents[a].tasks # <<>>
    /\ agents[a].tasks[1] = ctlTasks[t].id

\* C15: an agent spawned for a task whose requiredCapabilities is an empty
\* list or is missing has the generic fallback capability.
C15_EmptyCapabilitiesGetFallback ==
    \A a \in DOMAIN agents : \A t \in DOMAIN ctlTasks :
        (SpawnedFor(a, t) /\ ctlTasks[t].requiredCapabilities \in {{}, NoCaps}) =>
            agents[a].capabilities = {"general"}

\* ------------------------------------------- master selection: claim formulas
\* the highest score any agent gets for the task
MaxScore(task) ==
    CHOOSE s \in {Score(mAgents[a], task) : a \in DOMAIN mAgents} :
        \A b \in DOMAIN mAgents : Score(mAgents[b], task) <= s

\* the agents with the highest score for the task
TopScorers(task) ==
    {a \in DOMAIN mAgents : Score(mAgents[a], task) = MaxScore(task)}

\* C16: the agent MasterOrchestrator.selectBestAgent returns has the highest
\* score; among the agents with the highest score it has the lowest
\* avgExecutionTime, and among those still tied it is the earliest registered.
C16_HighestScoreThenFastestThenEarliest ==
    \A task \in TaskChoices :
        LET a == MSelectBestAgent(mAgents, task) IN
        a # 0 =>
            /\ a \in TopScorers(task)
            /\ \A b \in TopScorers(task) :
                  /\ ~RatLess(mMetrics[b].avgExecutionTime,
                              mMetrics[a].avgExecutionTime)
                  /\ mMetrics[b].avgExecutionTime = mMetrics[a].avgExecutionTime
                        => a <= b

\* ------------------------------------------------ retries: claim formulas
\* `task.retries || 0`
RetryCount(task) == IF task.retries = NoRetries THEN 0 ELSE task.retries

\* how often task t stands in queue q
Occurrences(q, t) == Cardinality({i \in DOMAIN q : q[i] = t})

\* C8: whenever an execution of a task fails (handleTaskFailure counts a
\* failure for the agent that runs it), the task is put back for another
\* attempt (its retry count goes up by one) if its retry count, absent
\* counting as 0, is below 3; at 3 it is not queued again and its retry
\* count stays.
C8_FailedTaskRequeuedBelowLimit ==
    [][\A r \in mRuns :
          mMetrics'[r.agent].tasksFailed > mMetrics[r.agent].tasksFailed =>
              LET t == r.task IN
              IF RetryCount(mTasks[t]) < MaxRetries
              THEN RetryCount(mTasks'[t]) = RetryCount(mTasks[t]) + 1
              ELSE /\ mTasks'[t].retries = mTasks[t].retries
                   /\ Occurrences(mQueue', t) <= Occurrences(mQueue, t)]_vars

\* C9: a task is never run on an agent recorded in its excludeAgents list.
C9_RetryAvoidsFailedAgents ==
    \A r \in mRuns :
        r.phase \in {"switching", "running"} =>
            r.agent \notin SeqToSet(mTasks[r.task].excludeAgents)

\* C26: once a worker has exited with code 0 its agent is idle again,
\* whether the commit of the task's changes is still pending, has succeeded
\* or has failed: no agent stays working for a run that is waiting for the
\* commit or that has ended.
C26_CommitDoesNotBlockCompletion ==
    /\ \A r \in mRuns : r.phase = "committing" => mAgents[r.agent].status = "idle"
    /\ \A a \in DOMAIN mAgents :
          mAgents[a].status = "working" => \E r \in mRuns : r.agent = a

\* ------------------------------------------------ metrics: claim formulas
\* the attempts recorded for an agent: completions and failures
Attempts(metrics) == metrics.tasksCompleted + metrics.tasksFailed

\* C21: whenever a completion or a failure is recorded for an agent, its
\* avgExecutionTime becomes (prevAvg * (n - 1) + sample) / n, n being the
\* number of attempts recorded so far and sample the time of the attempt.
C21_RunningMeanOverAllAttempts ==
    [][\A a \in DOMAIN mMetrics :
          Attempts(mMetrics'[a]) > Attempts(mMetrics[a]) =>
              \E sample \in ExecTimes :
                  mMetrics'[a].avgExecutionTime =
                      RunningMean(mMetrics[a].avgExecutionTime,
                                  Attempts(mMetrics'[a]), sample)]_vars

\* C22: once an outcome is recorded for an agent, the success rate reported
\* for it is completed / (completed + failed) * 100, a number from 0 to 100,
\* and 0 for an agent that only failed.
C22_SuccessRateIsCompletedOverAttempts ==
    \A a \in DOMAIN mMetrics :
        Attempts(mMetrics[a]) > 0 =>
            LET rate == ReportedSuccessRate(mMetrics[a]) IN
            /\ Rat(rate, 1) = Quotient(mMetrics[a].tasksCompleted * 100,
                                       Attempts(mMetrics[a]))
            /\ rate \in 0..100
            /\ mMetrics[a].tasksCompleted = 0 => rate = 0

\* C34: one failed attempt is handled once: for a worker run whose failure
\* was already handled by the 'error' handler, no later step counts another
\* failure for its agent or puts its task on the queue again.
C34_FailureHandledOncePerRun ==
    [][\A r \in mRuns :
          r.phase = "errored" =>
              /\ mMetrics'[r.agent].tasksFailed = mMetrics[r.agent].tasksFailed
              /\ mTasks'[r.task].retries = mTasks[r.task].retries]_vars

\* C36: an agent's status is 'working' if and only if its currentTask is set,
\* and an idle agent has no worker attached.
C36_WorkingIffCurrentTask ==
    \A a \in DOMAIN mAgents :
        /\ mAgents[a].status = "working" <=> mAgents[a].currentTask # 0
        /\ mAgents[a].status = "idle" => ~mAgents[a].worker

\* an agent that went through assignment, worker start and exit and is idle
\* again beside an agent that is working with its worker attached
C36_Witness ==
    /\ \E a \in DOMAIN mAgents :
          /\ mAgents[a].status = "idle"
          /\ mMetrics[a].tasksFailed > 0
    /\ \E a \in DOMAIN mAgents :
          /\ mAgents[a].status = "working"
          /\ mAgents[a].worker

\* C37: once shutdown has cleared isRunning, no step sets an agent to
\* 'working' and no step starts a new executeAgentTask run.
C37_NoAssignmentAfterShutdown ==
    [][~mIsRunning =>
          /\ \A a \in DOMAIN mAgents :
                mAgents'[a].status = "working" => mAgents[a].status = "working"
          /\ \A r \in mRuns' : r.phase = "switching" => r \in mRuns]_vars

\* ------------------------------------------------------ plan: claim formulas
\* the ids reachable from the set S along at most k dependency edges
RECURSIVE DepClosure(_, _)
DepClosure(S, k) ==
    IF k = 0 THEN S
    ELSE DepClosure(S \cup UNION {DepsOf(dependencies, t) : t \in S}, k - 1)

TaskSet == SeqToSet(tasks)

DepsInList == \A t \in TaskSet : DepsOf(dependencies, t) \subseteq TaskSet

HasCycle ==
    \E t \in TaskSet : t \in DepClosure(DepsOf(dependencies, t), Len(tasks))

\* the positions <<phase, index>> of the returned plan that hold task id t
PlacedAt(t) ==
    {pos \in (DOMAIN plan.phases) \X (1..Len(tasks)) :
        /\ pos[2] \in DOMAIN plan.phases[pos[1]]
        /\ plan.phases[pos[1]][pos[2]] = t}

PhaseOf(t) == (CHOOSE pos \in PlacedAt(t) : TRUE)[1]

\* C1: for an acyclic dependency map that refers only to tasks of the list,
\* the returned phases hold every input task exactly once and every
\* dependency of a task lies in a strictly earlier phase.
C1_PhasesPartitionAndOrder ==
    (planPc = "returned" /\ DepsInList /\ ~HasCycle) =>
        /\ \A t \in TaskSet : Cardinality(PlacedAt(t)) = 1
        /\ \A k \in DOMAIN plan.phases : SeqToSet(plan.phases[k]) \subseteq TaskSet
        /\ \A t \in TaskSet : \A d \in DepsOf(dependencies, t) :
              PhaseOf(d) < PhaseOf(t)

C1_Witness ==
    /\ planPc = "returned" /\ DepsInList /\ ~HasCycle
    /\ Len(tasks) = 3
    /\ Len(plan.phases) = 2
    /\ dependencies[3] = {1, 2}

\* the latest phase that holds a dependency of the placed task t, 0 when t
\* has no dependency
LatestDepPhase(t) ==
    IF DepsOf(dependencies, t) = {} THEN 0
    ELSE CHOOSE k \in DOMAIN plan.phases :
            /\ \E d \in DepsOf(dependencies, t) : PhaseOf(d) = k
            /\ \A d \in DepsOf(dependencies, t) : PhaseOf(d) <= k

\* C32: every phase is maximal: a placed task sits in the phase directly
\* after the latest phase of its dependencies, a task without dependencies
\* in phase 1; no eligible task is deferred to a later phase.
C32_PhasesAreMaximal ==
    \A t \in TaskSet :
        PlacedAt(t) # {} => PhaseOf(t) = LatestDepPhase(t) + 1

C32_Witness ==
    /\ planPc = "returned"
    /\ Len(plan.phases) = 2
    /\ Len(plan.phases[1]) = 2
    /\ \E t \in TaskSet :
          /\ Cardinality(DepsOf(dependencies, t)) = 2
          /\ PlacedAt(t) # {}
          /\ PhaseOf(t) = 2

\* C2: for a cyclic or unsatisfiable dependency map plan construction fails
\* with an error and hands no phases to the caller.
C2_CycleFailsWithoutPlan ==
    (planPc \in {"returned", "threw"} /\ (HasCycle \/ ~DepsInList)) =>
        (planPc = "threw" /\ plan.phases = <<>>)

\* the position of task t in the submitted list
SubmissionIndex(t) == CHOOSE i \in DOMAIN tasks : tasks[i] = t

\* C17: in every phase of the plan the tasks stand in descending priority (a
\* missing priority is 0) and tasks of equal priority in submission order;
\* tasks [T1, T2 depending on T1, T3] with priorities {T1: 5, T2: 5, T3: 9}
\* give the phases [[T3, T1], [T2]].
C17_PhaseOrderedByPriorityStable ==
    /\ \A k \in DOMAIN plan.phases :
       \A i, j \in DOMAIN plan.phases[k] :
          i < j =>
            LET x == plan.phases[k][i]
                y == plan.phases[k][j]
            IN /\ PrioOf(priority, x) >= PrioOf(priority, y)
               /\ PrioOf(priority, x) = PrioOf(priority, y)
                    => SubmissionIndex(x) < SubmissionIndex(y)
    /\ (/\ planPc = "returned"
        /\ tasks = <<1, 2, 3>>
        /\ dependencies = <<{}, {1}, {}>>
        /\ priority = <<5, 5, 9>>)
          => plan.phases = << <<3, 1>>, <<2>> >>

\* the plan of the example
C17_Witness ==
    /\ planPc = "returned"
    /\ tasks = <<1, 2, 3>>
    /\ dependencies = <<{}, {1}, {}>>
    /\ priority = <<5, 5, 9>>
    /\ plan.phases = << <<3, 1>>, <<2>> >>

C20_PlanIsPure ==
    /\ [][/\ tasks' = tasks
          /\ dependencies' = dependencies
          /\ priority' = priority
          /\ ctlVars' = ctlVars]_vars
    /\ [](planPc = "returned" /\ firstPlan # <<>> => plan = firstPlan[1])

\* a second call has returned a plan of two phases, one of them re-ordered
\* by priority
C20_Witness ==
    /\ planPc = "returned"
    /\ firstPlan # <<>>
    /\ Len(plan.phases) >= 2
    /\ \E p \in DOMAIN plan.phases :
          \E i, j \in DOMAIN plan.phases[p] :
              i < j /\ plan.phases[p][i] > plan.phases[p][j]

\* --------------------------------------------- task records: claim formulas
\* a task record carries exactly what its status says: a result and no error
\* when completed, an error and no result when failed, neither before
ResultXorError(task) ==
    /\ ~(task.result /\ task.error # "")
    /\ task.status = "completed" => task.result /\ task.error = ""
    /\ task.status = "failed" => ~task.result /\ task.error # ""
    /\ task.status \notin {"completed", "failed"} => ~task.result /\ task.error = ""

\* C23: a task never carries both a result and an error; a completed task
\* has a result and no error, a failed task an error and no result; and once
\* one of the two is set, neither field changes again.
C23_ResultXorErrorSetOnce ==
    /\ [](/\ \A t \in DOMAIN ctlTasks : ResultXorError(ctlTasks[t])
          /\ \A h \in DOMAIN bHistory : ResultXorError(bHistory[h]))
    /\ [][/\ \A t \in DOMAIN ctlTasks :
                Settled(ctlTasks[t]) =>
                    /\ ctlTasks'[t].result = ctlTasks[t].result
                    /\ ctlTasks'[t].error = ctlTasks[t].error
          /\ \A h \in DOMAIN bHistory : bHistory'[h] = bHistory[h]]_vars

\* the controller holds a completed and a failed task
C23_Witness ==
    \E s, t \in DOMAIN ctlTasks :
        /\ ctlTasks[s].status = "completed" /\ ctlTasks[s].result
        /\ ctlTasks[t].status = "failed" /\ ctlTasks[t].error # ""

\* ------------------------------------------------- CoreAgent: claim formulas
\* C24: executeTask called on a CoreAgent that is not idle (initializing,
\* busy or shutdown) throws and leaves the agent's status, currentTask and
\* metrics as they were; the call running on a busy agent goes on unchanged.
C24_NotIdleFailsWithoutChange ==
    [][Len(kCalls') > Len(kCalls) /\ kStatus # "idle" =>
          /\ kCalls'[Len(kCalls')] = "thrown"
          /\ kStatus' = kStatus
          /\ kCurrentTask' = kCurrentTask
          /\ kMetrics' = kMetrics
          /\ \A n \in DOMAIN kCalls : kCalls'[n] = kCalls[n]]_vars

\* a call was refused while an earlier call is still processing on the busy
\* agent
C24_Witness ==
    /\ kStatus = "busy"
    /\ kCurrentTask \in DOMAIN kCalls
    /\ kCalls[kCurrentTask] = "processing"
    /\ \E n \in DOMAIN kCalls : n > kCurrentTask /\ kCalls[n] = "thrown"

\* C29: buildExecutionPlan terminates on every submission, also with cyclic
\* dependencies, dependencies on ids that are not in the list, and ids that
\* stand in the list twice: every pass of its loop places at least one new
\* task or ends the loop, and every call returns.
C29_PlanTerminates ==
    /\ [][planPc = "loop" =>
            \/ planPc' = "returned"
            \/ Cardinality(completed') > Cardinality(completed)]_vars
    /\ <>[](planPc = "returned")

\* a call has returned for a list that names a task twice and depends on an
\* id that is not in it, after placing a phase
C29_Witness ==
    /\ planPc = "returned"
    /\ Len(tasks) > Cardinality(SeqToSet(tasks))
    /\ \E t \in DOMAIN dependencies : ~(dependencies[t] \subseteq SeqToSet(tasks))
    /\ plan.phases # <<>>

\* C38: shutdown of a CoreAgent is permanent: once the status is 'shutdown'
\* it stays 'shutdown' (so every later executeTask is refused), also when a
\* task that was executing at shutdown settles afterwards.
C38_ShutdownIsPermanent ==
    [][kStatus = "shutdown" => kStatus' = "shutdown"]_vars

\* ------------------------------------------- resolveDependencies: claim formulas
RTaskSet == SeqToSet(rTasks)

RHasCycle ==
    \E t \in RTaskSet : t \in DepClosure(DepsOf(rDeps, t), Len(rTasks))

\* the while loop is at its condition, the condition holds, and a whole pass
\* over the tasks resolves nothing: every later pass is the same pass
RSpins ==
    /\ rPc = "loop"
    /\ ResolveScan(rTasks, 1, rDeps, rOrder, rResolved).resolved = rResolved

\* the positions of executionOrder that hold task id t
RPlacedAt(t) == {i \in DOMAIN rOrder : rOrder[i] = t}

\* C30: resolveDependencies terminates on every finite input, a cyclic
\* dependency map or a dependency on an unknown task id included (the loop is
\* never at a pass that resolves nothing), and for acyclic input the returned
\* executionOrder lists every task exactly once, each after its dependencies.
C30_ResolveTerminatesAndOrders ==
    /\ ~RSpins
    /\ (rPc = "returned" /\ ~RHasCycle) =>
          /\ \A i \in DOMAIN rTasks : Cardinality(RPlacedAt(rTasks[i])) = 1
          /\ SeqToSet(rOrder) \subseteq RTaskSet
          /\ \A t \in RTaskSet : \A d \in DepsOf(rDeps, t) :
                \A i \in RPlacedAt(t) : \E j \in RPlacedAt(d) : j < i

\* C31: for every acyclic dependency map, no phase of the returned
\* `parallelizable` holds a task together with one of its direct or
\* transitive dependencies.
C31_PhasesHoldNoDependentPair ==
    (rPc = "returned" /\ ~RHasCycle) =>
        \A k \in DOMAIN rParallel :
            \A t \in SeqToSet(rParallel[k]) :
                SeqToSet(rParallel[k]) \cap
                    DepClosure(DepsOf(rDeps, t), Len(rTasks)) = {}

\* ---------------------------------------------------- BaseAgent: claim formulas
\* the executeTask calls whose performTask has not settled yet
BExecuting == {n \in DOMAIN bRuns : bRuns[n].state = "executing"}

\* C33: a BaseAgent never executes more than maxConcurrentTasks tasks at the
\* same time, whatever ids the tasks carry (shared ids included).
C33_AtMostMaxConcurrent ==
    program = "base-agent" => Cardinality(BExecuting) <= bMax

\* C39: once shutdown has been called (status shutting_down or stopped) the
\* agent starts no new task: no step adds a task to activeTasks and no
\* executeTask call reaches performTask.
C39_NoNewTaskAfterShutdown ==
    [][(bStatus = "shutting_down" \/ bStatus = "stopped") =>
          /\ bActive' \subseteq bActive
          /\ \A n \in DOMAIN bRuns' :
                bRuns'[n].state = "executing" =>
                    n \in DOMAIN bRuns /\ bRuns[n].state = "executing"]_vars

\* the executeTask calls with task id `id` that got past the limit test
BStarted(id) ==
    {n \in DOMAIN bRuns : bRuns[n].taskId = id /\ bRuns[n].state # "refused"}

\* the taskHistory entries with task id `id`
BRecorded(id) == {i \in DOMAIN bHistory : bHistory[i].id = id}

\* C40: tasksCompleted equals tasksSuccessful + tasksFailed and the length of
\* taskHistory, and every started task is either still in activeTasks or
\* recorded exactly once in taskHistory as completed or failed.
C40_EveryStartedTaskAccounted ==
    program = "base-agent" =>
        /\ bPerformance.tasksCompleted =
              bPerformance.tasksSuccessful + bPerformance.tasksFailed
        /\ bPerformance.tasksCompleted = Len(bHistory)
        /\ \A i \in DOMAIN bHistory : bHistory[i].status \in {"completed", "failed"}
        /\ \A id \in BaseTaskIds :
              Cardinality(BStarted(id)) =
                  Cardinality(BRecorded(id)) + (IF id \in bActive THEN 1 ELSE 0)

====
